---- MODULE Spec2Model ----
(***************************************************************************)
(* FirmwareUpdateCheckerJob (plugins/FirmwareUpdateChecker):  a job that   *)
(* resolves a printer, fetches the firmware versions its check URLs        *)
(* publish, overwrites the "latest checked firmware" preference and shows  *)
(* an update message.                                                      *)
(*                                                                         *)
(* Texts (str) are modelled as the sequence of their dot-separated numeric *)
(* components: "" is << >>, "1.2.0" is <<1, 2, 0>>.  A Version is the      *)
(* triple (major, minor, revision) that UM.Version keeps.                  *)
(***************************************************************************)
EXTENDS Naturals, Sequences, FiniteSets

\* Largest value of one version component.
MaxComponent == 1
\* Largest number of check URLs registered for one machine.
MaxUrls == 2
\* Number of times run() is started in one behaviour.
MaxRuns == 3

VARIABLES
    prefs,         \* the preferences store: settings key -> stored text
    lookup_table,  \* FirmwareUpdateCheckerLookup: machine id -> check URLs, parse function
    web,           \* what each check URL answers (fixed inputs of VersionSpec)
    job,           \* the fields and locals of each FirmwareUpdateCheckerJob
    runs,          \* run() calls started so far
    prefs0,        \* history: prefs when the runs now in progress began
    last_ok        \* history: per machine, the version fetched by the last run that
                   \* completed before the one now in progress

vars == <<prefs, lookup_table, web, job, runs, prefs0, last_ok>>

Jobs == {1, 2}
SeqJobs == {1}
MachineIds == {1, 2}
NoMachine == 0
Urls == 1..MaxUrls
Components == 0..MaxComponent

\* -------------------------------------------------------------------------
\* UM.Version

Versions == {<<a, b, c>> : a \in Components, b \in Components, c \in Components}
EmptyText == << >>
VersionTexts == Versions
StoredTexts == {EmptyText} \cup VersionTexts

\* Version(str): split on ".", int() of the first three parts; a missing or
\* non-numeric part (IndexError, ValueError) leaves the component 0.
VersionFromText(text) == [i \in 1..3 |-> IF i <= Len(text) THEN text[i] ELSE 0]

\* str(Version): "major.minor.revision".
VersionToText(version) == <<version[1], version[2], version[3]>>

\* Version.__lt__: major, then minor, then revision.
VersionLt(a, b) ==
    \/ a[1] < b[1]
    \/ a[1] = b[1] /\ a[2] < b[2]
    \/ a[1] = b[1] /\ a[2] = b[2] /\ a[3] < b[3]

VersionGt(a, b) == VersionLt(b, a)

\* Version.__eq__ on two Versions.
VersionEq(a, b) == a[1] = b[1] /\ a[2] = b[2] /\ a[3] = b[3]

\* Version.__ne__ with a str operand: the operand is converted by Version(str).
VersionNeText(version, text) == ~VersionEq(version, VersionFromText(text))

STRING_ZERO_VERSION == <<0, 0, 0>>
ZERO_VERSION == VersionFromText(STRING_ZERO_VERSION)

\* -------------------------------------------------------------------------
\* Collaborators: the container, the lookup, the network

\* Names of the definition containers the jobs are built for.
ContainerNames == {"Ultimaker 3", "Prusa I3"}

\* str.lower()
Lower(name) ==
    CASE name = "Ultimaker 3" -> "ultimaker 3"
      [] name = "Prusa I3" -> "prusa i3"
      [] OTHER -> name

\* FirmwareUpdateCheckerLookup.getMachineByName
getMachineByName(name) ==
    CASE name = "ultimaker 3" -> 1
      [] name = "ultimaker 3 extended" -> 2
      [] OTHER -> NoMachine

\* getSettingsKeyForMachine: one key per machine id.
getSettingsKeyForMachine(machine_id) == machine_id

\* Sequences of distinct URLs.
UrlLists ==
    {s \in UNION {[1..n -> Urls] : n \in 0..MaxUrls} :
        \A i, k \in DOMAIN s : i # k => s[i] # s[k]}

LookupEntries == [urls_none : BOOLEAN, urls : UrlLists, parse_none : BOOLEAN]

\* One answer of a URL: a body (a version text, or the empty body, which the
\* parse function rejects), URLError (raised by urlopen: host unreachable, DNS
\* failure, timeout while connecting), or an OSError that is no URLError
\* (socket.timeout or ConnectionResetError raised by response.read()).
Responses ==
    [kind : {"ok"}, body : VersionTexts \cup {EmptyText}]
        \cup [kind : {"URLError", "OSError"}, body : {EmptyText}]

InitJob ==
    [pc |-> "idle", silent |-> FALSE, lookups |-> FALSE, headers |-> FALSE,
     container |-> "Prusa I3", machine_name |-> "", machine_id |-> NoMachine,
     machine_urls |-> << >>, max_version |-> ZERO_VERSION,
     current_version |-> ZERO_VERSION, checked_version |-> ZERO_VERSION,
     exc |-> "none", raised_at |-> "none", outcome |-> "none",
     fetched |-> 0, soft_failure |-> FALSE, wrote |-> FALSE,
     update_shown |-> 0, failure_shown |-> 0, escaped |-> FALSE]

DefaultTable ==
    [m \in MachineIds |->
        IF m = 1
        THEN [urls_none |-> FALSE, urls |-> [i \in 1..MaxUrls |-> i], parse_none |-> FALSE]
        ELSE [urls_none |-> FALSE, urls |-> << >>, parse_none |-> FALSE]]

DefaultWeb == [u \in Urls |-> [kind |-> "URLError", body |-> EmptyText]]

Init ==
    /\ prefs = [m \in MachineIds |-> EmptyText]
    /\ lookup_table = DefaultTable
    /\ web = DefaultWeb
    /\ job = [j \in Jobs |-> InitJob]
    /\ runs = 0
    /\ prefs0 = prefs
    /\ last_ok = [m \in MachineIds |-> EmptyText]

\* -------------------------------------------------------------------------
\* FirmwareUpdateCheckerJob

\* __init__, and the job queue starting run().
Start(j) ==
    /\ job[j].pc \in {"idle", "done"}
    /\ runs < MaxRuns
    /\ \E silent \in BOOLEAN, lookups \in BOOLEAN, container \in ContainerNames :
        job' = [job EXCEPT ![j] = [InitJob EXCEPT !.pc = "begin", !.silent = silent,
                                       !.lookups = lookups, !.container = container,
                                       !.outcome = "running"]]
    /\ runs' = runs + 1
    /\ prefs0' = prefs
    /\ last_ok' = IF job[j].outcome = "completed"
                  THEN [last_ok EXCEPT ![job[j].machine_id] =
                                           VersionToText(job[j].current_version)]
                  ELSE last_ok
    /\ UNCHANGED <<prefs, lookup_table, web>>

\* except Exception
CaughtInRun(kind) == kind \in {"Exception", "OSError", "URLError"}

\* Mutation of ShowsFailure: the silent flag is ignored.
ShowsFailureAlways(silent) == TRUE

\* if not self.silent
ShowsFailure(silent) == ~silent

\* The handler of run(), entered from the step that raised; the locals of the
\* try block are dead from here on.
HandleException(self, kind, where) ==
    LET ended == [self EXCEPT !.pc = "done", !.outcome = "failed", !.exc = kind,
                              !.raised_at = where, !.machine_urls = << >>,
                              !.max_version = ZERO_VERSION]
    IN IF CaughtInRun(kind)
       THEN [ended EXCEPT !.failure_shown =
                              IF ShowsFailure(self.silent)
                              THEN self.failure_shown + 1 ELSE self.failure_shown]
       ELSE [ended EXCEPT !.escaped = TRUE]

\* raise: control passes to the handler of run().
Raise(j, kind, where) ==
    job' = [job EXCEPT ![j] = HandleException(job[j], kind, where)]

\* Mutation of LookupsMissing: the check is left out.
LookupsNeverMissing(lookups) == FALSE

\* if self._lookups is None
LookupsMissing(lookups) == ~lookups

CheckLookups(j) ==
    /\ job[j].pc = "begin"
    /\ IF LookupsMissing(job[j].lookups)
       THEN job' = [job EXCEPT ![j].pc = "done", ![j].outcome = "no_lookups"]
       ELSE job' = [job EXCEPT ![j].pc = "headers"]
    /\ UNCHANGED <<prefs, lookup_table, web, runs, prefs0, last_ok>>

BuildHeaders(j) ==
    /\ job[j].pc = "headers"
    /\ \/ job' = [job EXCEPT ![j].pc = "name", ![j].headers = TRUE]
       \/ Raise(j, "Exception", "headers")
    /\ UNCHANGED <<prefs, lookup_table, web, runs, prefs0, last_ok>>

GetMachineName(j) ==
    /\ job[j].pc = "name"
    /\ \/ job' = [job EXCEPT ![j].pc = "resolve", ![j].machine_name = job[j].container]
       \/ Raise(j, "Exception", "name")
    /\ UNCHANGED <<prefs, lookup_table, web, runs, prefs0, last_ok>>

ResolveMachine(j) ==
    /\ job[j].pc = "resolve"
    /\ \/ LET machine_id == getMachineByName(Lower(job[j].machine_name))
          IN IF machine_id # NoMachine
             THEN job' = [job EXCEPT ![j].pc = "get_version", ![j].machine_id = machine_id]
             ELSE job' = [job EXCEPT ![j].pc = "done", ![j].outcome = "no_machine"]
       \/ Raise(j, "Exception", "resolve")
    /\ UNCHANGED <<prefs, lookup_table, web, runs, prefs0, last_ok>>

\* except URLError: the only exception getUrlResponse handles.
CaughtInGetUrlResponse(kind) == kind = "URLError"

\* getUrlResponse: the decoded body, or STRING_ZERO_VERSION after a caught error.
getUrlResponse(resp) ==
    IF resp.kind = "ok" THEN resp.body ELSE STRING_ZERO_VERSION

\* The lookup's parse function for a machine: the Version a body's text
\* holds; it raises on a body that holds none.
ParseFunction(text) == VersionFromText(text)
ParseRaises(text) == text \notin VersionTexts

\* Mutation of NextMax: the comparison is left out.
NextMaxKeepLast(max_version, version) == version

\* if version > max_version: max_version = version
NextMax(max_version, version) ==
    IF VersionGt(version, max_version) THEN version ELSE max_version

\* The URLs the loop of getCurrentVersionForMachine goes through.
UrlsToFetch(entry) ==
    IF ~entry.urls_none /\ ~entry.parse_none THEN entry.urls ELSE << >>

\* getCurrentVersionForMachine up to the loop.
CallGetCurrentVersion(j) ==
    /\ job[j].pc = "get_version"
    /\ job' = [job EXCEPT ![j].pc = "loop",
                          ![j].max_version = ZERO_VERSION,
                          ![j].machine_urls = UrlsToFetch(lookup_table[job[j].machine_id])]
    /\ UNCHANGED <<prefs, lookup_table, web, runs, prefs0, last_ok>>

\* One pass of the loop: getUrlResponse(url), parse_function, the comparison.
FetchUrl(j, resp) ==
    /\ job[j].pc = "loop"
    /\ job[j].machine_urls # << >>
    /\ IF resp.kind # "ok" /\ ~CaughtInGetUrlResponse(resp.kind)
       THEN Raise(j, resp.kind, "fetch")
       ELSE IF ParseRaises(getUrlResponse(resp))
       THEN Raise(j, "Exception", "parse")
       ELSE LET version == ParseFunction(getUrlResponse(resp))
            IN job' = [job EXCEPT
                    ![j].max_version = NextMax(job[j].max_version, version),
                    ![j].machine_urls = Tail(job[j].machine_urls),
                    ![j].fetched = job[j].fetched + 1,
                    ![j].soft_failure = job[j].soft_failure \/ resp.kind # "ok"]
    /\ UNCHANGED <<prefs, lookup_table, web, runs, prefs0, last_ok>>

\* The network answers the next URL with any response.
FetchAny(j) == \E resp \in Responses : FetchUrl(j, resp)

\* The next URL answers what web holds for it.
FetchFromWeb(j) ==
    /\ job[j].pc = "loop"
    /\ job[j].machine_urls # << >>
    /\ FetchUrl(j, web[Head(job[j].machine_urls)])

\* return max_version, assigned to current_version in run().
ReturnVersion(j) ==
    /\ job[j].pc = "loop"
    /\ job[j].machine_urls = << >>
    /\ job' = [job EXCEPT ![j].pc = "read", ![j].current_version = job[j].max_version]
    /\ UNCHANGED <<prefs, lookup_table, web, runs, prefs0, last_ok>>

\* if (checked_version != "") and (checked_version != current_version)
ShouldNotify(checked_version, current_version) ==
    /\ VersionNeText(checked_version, EmptyText)
    /\ ~VersionEq(checked_version, current_version)

\* Mutation of ReadPref: the record is overwritten before it is read.
ReadPrefAfterWrite(j) ==
    /\ job[j].pc = "read"
    /\ prefs' = [prefs EXCEPT ![getSettingsKeyForMachine(job[j].machine_id)] =
                                  VersionToText(job[j].current_version)]
    /\ \/ job' = [job EXCEPT ![j].pc = "write",
                     ![j].checked_version =
                         VersionFromText(prefs'[getSettingsKeyForMachine(job[j].machine_id)])]
       \/ Raise(j, "Exception", "read")
    /\ UNCHANGED <<lookup_table, web, runs, prefs0, last_ok>>

\* checked_version = Version(getPreferences().getValue(setting_key_str))
ReadPref(j) ==
    /\ job[j].pc = "read"
    /\ \/ job' = [job EXCEPT ![j].pc = "write",
                     ![j].checked_version =
                         VersionFromText(prefs[getSettingsKeyForMachine(job[j].machine_id)])]
       \/ Raise(j, "Exception", "read")
    /\ UNCHANGED <<prefs, lookup_table, web, runs, prefs0, last_ok>>

\* Mutation of WritePref: the record is written only when the update
\* notification is due.
WritePrefWhenNotifying(j) ==
    /\ job[j].pc = "write"
    /\ prefs' = IF ShouldNotify(job[j].checked_version, job[j].current_version)
                THEN [prefs EXCEPT ![getSettingsKeyForMachine(job[j].machine_id)] =
                                       VersionToText(job[j].current_version)]
                ELSE prefs
    /\ job' = [job EXCEPT ![j].pc = "decide", ![j].wrote = TRUE]
    /\ UNCHANGED <<lookup_table, web, runs, prefs0, last_ok>>

\* getPreferences().setValue(setting_key_str, current_version)
WritePref(j) ==
    /\ job[j].pc = "write"
    /\ \/ /\ prefs' = [prefs EXCEPT ![getSettingsKeyForMachine(job[j].machine_id)] =
                                        VersionToText(job[j].current_version)]
          /\ job' = [job EXCEPT ![j].pc = "decide", ![j].wrote = TRUE]
       \/ Raise(j, "Exception", "write") /\ UNCHANGED prefs
    /\ UNCHANGED <<lookup_table, web, runs, prefs0, last_ok>>

\* The rest of the try block: the decision, and the message built and shown.
DecideNotify(j) ==
    /\ job[j].pc = "decide"
    /\ \/ /\ job' = [job EXCEPT ![j].pc = "done", ![j].outcome = "completed",
                        ![j].update_shown =
                            IF ShouldNotify(job[j].checked_version, job[j].current_version)
                            THEN job[j].update_shown + 1 ELSE job[j].update_shown]
       \/ /\ ShouldNotify(job[j].checked_version, job[j].current_version)
          /\ Raise(j, "Exception", "message")
    /\ UNCHANGED <<prefs, lookup_table, web, runs, prefs0, last_ok>>

\* The steps of run().
Run(j) ==
    \/ CheckLookups(j)
    \/ BuildHeaders(j)
    \/ GetMachineName(j)
    \/ ResolveMachine(j)
    \/ CallGetCurrentVersion(j)
    \/ FetchAny(j)
    \/ ReturnVersion(j)
    \/ ReadPref(j)
    \/ WritePref(j)
    \/ DecideNotify(j)

\* Runs of one job instance, one after the other.
Next == \E j \in SeqJobs : Start(j) \/ Run(j)

Spec == Init /\ [][Next]_vars

\* Two job instances for machine 1, both handed to the job queue, whose steps
\* interleave; the record of machine 1 is one a run can have left.
ConcInit ==
    /\ prefs \in [MachineIds -> StoredTexts]
    /\ prefs[2] = EmptyText
    /\ lookup_table = DefaultTable
    /\ web = DefaultWeb
    /\ job \in [Jobs -> {[InitJob EXCEPT !.pc = "begin", !.silent = silent,
                                         !.lookups = TRUE, !.container = "Ultimaker 3",
                                         !.outcome = "running"] : silent \in BOOLEAN}]
    /\ runs = MaxRuns
    /\ prefs0 = prefs
    /\ last_ok = [m \in MachineIds |-> EmptyText]

ConcNext == \E j \in Jobs : Run(j)

ConcSpec == ConcInit /\ [][ConcNext]_vars

\* getCurrentVersionForMachine alone: the lookup's entry for machine 1 and the
\* answer of each of its URLs are the inputs, the call starts at line 83.
VersionInit ==
    /\ prefs = [m \in MachineIds |-> EmptyText]
    /\ lookup_table \in [MachineIds -> LookupEntries]
    /\ lookup_table[2] = DefaultTable[2]
    /\ lookup_table[1].urls_none => lookup_table[1].urls = << >>
    /\ web \in [Urls -> Responses]
    /\ \A u \in Urls :
        (\A i \in DOMAIN lookup_table[1].urls : lookup_table[1].urls[i] # u)
            => web[u] = DefaultWeb[u]
    /\ job = [j \in Jobs |->
                IF j = 1
                THEN [InitJob EXCEPT !.pc = "get_version", !.lookups = TRUE,
                                     !.headers = TRUE, !.container = "Ultimaker 3",
                                     !.machine_name = "Ultimaker 3", !.machine_id = 1,
                                     !.outcome = "running"]
                ELSE InitJob]
    /\ runs = 1
    /\ prefs0 = prefs
    /\ last_ok = [m \in MachineIds |-> EmptyText]

VersionNext ==
    \/ CallGetCurrentVersion(1)
    \/ FetchFromWeb(1)
    \/ ReturnVersion(1)

VersionSpec == VersionInit /\ [][VersionNext]_vars

\* -------------------------------------------------------------------------
\* Properties

Done(j) == job[j].pc = "done"
Resolved(j) == job[j].machine_id # NoMachine
\* The record of the job's machine before the run, and the version it fetched.
Previous(j) == prefs0[getSettingsKeyForMachine(job[j].machine_id)]
Record(j) == prefs[getSettingsKeyForMachine(job[j].machine_id)]
Current(j) == VersionToText(job[j].current_version)
NotifiedUpdate(j) == job[j].update_shown > 0

\* C1: a run that completes without an exception shows the update
\* notification if and only if the previous record P is not "" and P differs
\* from the current version C.
NotifyIffChanged ==
    \A j \in SeqJobs :
        Done(j) /\ job[j].outcome = "completed"
            => (NotifiedUpdate(j) <=> (Previous(j) # EmptyText /\ Previous(j) # Current(j)))

\* C2: a run that resolved its machine and raised no exception up to and
\* including the write leaves the machine's record equal to the version it
\* fetched, whether or not the notification was shown.
RecordOverwritten ==
    \A j \in SeqJobs :
        Done(j) /\ Resolved(j) /\ job[j].raised_at \in {"none", "message"}
            => Record(j) = Current(j)

RecordOverwrittenWitness ==
    \E j \in SeqJobs :
        /\ Done(j) /\ job[j].outcome = "completed"
        /\ ~NotifiedUpdate(j)
        /\ Previous(j) = EmptyText
        /\ Record(j) = Current(j)
        /\ Record(j) # STRING_ZERO_VERSION

\* C3: with a non-empty previous record P, a fetched version C that is not
\* greater than P is never announced.
NoNotifyUnlessNewer ==
    \A j \in SeqJobs :
        /\ Done(j) /\ job[j].wrote
        /\ Previous(j) # EmptyText
        /\ ~VersionGt(job[j].current_version, VersionFromText(Previous(j)))
        => ~NotifiedUpdate(j)

\* C4: a network failure of one URL fetch is a soft failure: the loop goes on
\* through every URL and the run reaches the write, not the handler of run().
NetworkFailureIsSoft ==
    \A j \in SeqJobs :
        /\ Done(j)
        /\ job[j].soft_failure \/ job[j].raised_at = "fetch"
        /\ job[j].raised_at \in {"none", "fetch", "message"}
        => /\ job[j].wrote
           /\ job[j].fetched = Len(lookup_table[job[j].machine_id].urls)
           /\ job[j].exc # "OSError"

\* C5: an exception raised by a step of run() after the lookup check never
\* escapes run(); the failure notification is shown once when silent is
\* False and not at all when it is True.
ExceptionHandled ==
    \A j \in SeqJobs :
        /\ ~job[j].escaped
        /\ Done(j) /\ job[j].raised_at # "none"
            => job[j].failure_shown = (IF job[j].silent THEN 0 ELSE 1)

ExceptionHandledWitness ==
    \E j \in SeqJobs :
        /\ Done(j) /\ job[j].raised_at = "message"
        /\ ~job[j].silent /\ job[j].failure_shown = 1

\* C7: a run that ends because no lookup was given or the name resolves to no
\* machine writes no record, fetches no URL and shows no notification.
NothingToDo ==
    \A j \in SeqJobs :
        /\ Done(j) /\ job[j].raised_at = "none"
        /\ \/ ~job[j].lookups
           \/ getMachineByName(Lower(job[j].container)) = NoMachine
        => /\ prefs = prefs0
           /\ ~job[j].wrote
           /\ job[j].fetched = 0
           /\ job[j].update_shown = 0
           /\ job[j].failure_shown = 0

NothingToDoWitness ==
    \E j \in SeqJobs :
        /\ Done(j) /\ job[j].outcome = "no_machine" /\ ~job[j].silent
        /\ prefs[1] # EmptyText

\* C8: a run that fetches the version the last completed run of its machine
\* fetched shows no update notification.
OneTimeNotification ==
    \A j \in SeqJobs :
        /\ Done(j) /\ job[j].wrote
        /\ last_ok[job[j].machine_id] = Current(j)
        => ~NotifiedUpdate(j)

\* C10: an exception raised before the write leaves every record as it was
\* and shows no update notification; records change only in a run that has
\* fetched its version.
FailureBeforeWrite ==
    \A j \in SeqJobs :
        /\ Done(j) /\ job[j].raised_at \in
                {"headers", "name", "resolve", "fetch", "parse", "read", "write"}
            => prefs = prefs0 /\ ~NotifiedUpdate(j)
        /\ prefs # prefs0 => job[j].wrote /\ job[j].pc \in {"decide", "done"}

FailureBeforeWriteWitness ==
    \E j \in SeqJobs :
        /\ Done(j) /\ job[j].raised_at = "fetch" /\ job[j].fetched > 0
        /\ Previous(j) # EmptyText

\* The greatest version of a set, the zero version for the empty set.
RECURSIVE MaxVersion(_)
MaxVersion(S) ==
    IF S = {} THEN ZERO_VERSION
    ELSE LET v == CHOOSE x \in S : TRUE
             m == MaxVersion(S \ {v})
         IN IF VersionLt(m, v) THEN v ELSE m

\* The version a response stands for once getUrlResponse and the parse
\* function have handled it.
PublishedVersion(resp) ==
    IF resp.kind = "ok" THEN VersionFromText(resp.body) ELSE ZERO_VERSION

\* C6: getCurrentVersionForMachine returns the maximum of the zero version
\* and the versions of all the machine's URLs, in whatever order they are
\* listed; with no URLs, or no URL list or no parse function, it fetches
\* nothing and returns the zero version.
MaxOfAllUrls ==
    LET entry == lookup_table[1]
        absent == entry.urls_none \/ entry.parse_none \/ entry.urls = << >>
    IN /\ absent => job[1].fetched = 0
       /\ job[1].pc = "read" =>
            IF absent
            THEN job[1].current_version = ZERO_VERSION
            ELSE /\ job[1].current_version =
                        MaxVersion({PublishedVersion(web[entry.urls[i]]) :
                                        i \in DOMAIN entry.urls})
                 /\ job[1].fetched = Len(entry.urls)

MaxOfAllUrlsWitness ==
    LET entry == lookup_table[1]
    IN /\ job[1].pc = "read"
       /\ Len(entry.urls) = MaxUrls
       /\ web[entry.urls[1]].kind = "ok"
       /\ web[entry.urls[2]].kind = "ok"
       /\ VersionGt(PublishedVersion(web[entry.urls[1]]), PublishedVersion(web[entry.urls[2]]))
       /\ VersionGt(PublishedVersion(web[entry.urls[2]]), ZERO_VERSION)
       /\ job[1].current_version = PublishedVersion(web[entry.urls[1]])

\* C9: two instances that run at the same time for one machine and fetch the
\* same version C, with the record P non-empty and different from C, show the
\* update notification at most once between them, and the record is C when
\* both have finished.
AtMostOnceConcurrently ==
    /\ Done(1) /\ Done(2)
    /\ job[1].outcome = "completed" /\ job[2].outcome = "completed"
    /\ job[1].machine_id = job[2].machine_id
    /\ Current(1) = Current(2)
    /\ Previous(1) # EmptyText /\ Previous(1) # Current(1)
    => /\ job[1].update_shown + job[2].update_shown <= 1
       /\ Record(1) = Current(1)

====
